---- MODULE Spec2Model ----
(***************************************************************************)
(* Forest-fire cellular automaton of main.py: the Forest grid, the         *)
(* Simulation step engine and the event handlers that drive them.          *)
(***************************************************************************)
EXTENDS Integers, Sequences, FiniteSets, TLC

\* ------------------------------------------------------------------ bounds
\* Largest grid side typed into the "grid-size" input.
MaxSize == 2
\* Largest grid side of the forests that Simulation.next_step is explored on.
GridSide == 3
\* Most negative value typed into an input is -MaxNeg.
MaxNeg == 1
\* Simulation.next_step is applied while time_step < MaxTime.
MaxTime == 10
\* Number of start_fire clicks explored per forest.
MaxIgnite == 2
\* Number of generate_forest clicks explored.
MaxGenerate == 2
\* Consecutive next_step calls explored on a grid that has no FIRE cell.
MaxIdle == 1
\* Number of Forest.set_state calls explored.
MaxSetState == 1

\* --------------------------------------------------------------- TileState
EMPTY == 0
TREE == 1
FIRE == 2
ASHES == 3

TileState == {EMPTY, TREE, FIRE, ASHES}

VARIABLES
    forest,        \* global forest: "None" or "Forest"
    size,          \* forest.size
    grid,          \* forest.grid, a function on Positions(size)
    simulation,    \* global simulation: "None" or "Simulation"
    time_step,     \* simulation.time_step
    is_running,    \* global is_running
    interval_id,   \* global interval_id: 0 is None, otherwise the timer's id
    timers,        \* the interval timers of the page that setInterval started
                   \* and clearInterval has not cleared
    reported,      \* arguments of the last update_chart call made for the
                   \* current simulation, << >> before the first
    error,         \* exception raised by the last handler, "None" if it returned
    last,          \* the last operation and its inputs
    pre,           \* forest.grid, forest.size and time_step before the last operation
    generations,   \* generate_forest clicks so far
    ignitions,     \* start_fire clicks since the forest was generated
    steps,         \* consecutive next_step calls since the last other mutation
    fire0,         \* whether a cell was FIRE when that run of steps began
    set_calls,     \* Forest.set_state calls so far
    idle           \* consecutive next_step calls that found no FIRE cell

vars == <<forest, size, grid, simulation, time_step, is_running, interval_id,
          timers, reported, error, last, pre, generations, ignitions, steps,
          fire0, idle, set_calls>>

\* The state of the run loop.
run_state == <<is_running, interval_id, timers>>

\* ------------------------------------------------------------------ Forest
Positions(n) == (0 .. n - 1) \X (0 .. n - 1)

\* Forest.__init__: np.full((size, size), EMPTY); numpy refuses a negative side.
Forest_init_raises(n) == n < 0

\* Mutant of Forest_init: the cells are not filled with a TileState.
Forest_init_unfilled(n) == [p \in Positions(n) |-> 0 - 1]

Forest_init(n) == [p \in Positions(n) |-> EMPTY]

Count(g, s) == Cardinality({p \in DOMAIN g : g[p] = s})

\* Mutant of PlantedIndices: the break test is "i > num_trees".
PlantedIndices_late(n, num_trees) == {i \in 0 .. n * n - 1 : ~(i > num_trees)}

\* plant_trees: the indices of the shuffled list that are planted before the break.
PlantedIndices(n, num_trees) == {i \in 0 .. n * n - 1 : ~(i >= num_trees)}

\* available_positions before the shuffle: entry i is (i // size, i % size).
available_position(n, i) == <<i \div n, i % n>>

\* np.random.shuffle: the first k entries of the shuffled list are any k
\* distinct entries of available_positions. The cells planted do not depend on
\* the order of these k, so each choice is listed once, by increasing index.
RECURSIVE ShuffledPrefixes(_, _)
ShuffledPrefixes(k, m) ==
    IF k = 0 THEN {<<>>}
    ELSE UNION {{Append(t, i) : i \in (IF t = <<>> THEN 0 ELSE t[Len(t)] + 1) .. (m - 1)} :
                    t \in ShuffledPrefixes(k - 1, m)}

PlantChoices(n, num_trees) ==
    ShuffledPrefixes(Cardinality(PlantedIndices(n, num_trees)), n * n)

\* plant_trees: every position of the planted prefix is set to TREE.
plant_trees(g, n, prefix) ==
    [p \in DOMAIN g |->
        IF \E j \in DOMAIN prefix : available_position(n, prefix[j]) = p
        THEN TREE ELSE g[p]]

\* Mutant of tree_positions: the comparison with TREE is inverted.
tree_positions_not(g) == {p \in DOMAIN g : g[p] # TREE}

\* ignite_tree: the positions of the TREE cells.
tree_positions(g) == {p \in DOMAIN g : g[p] = TREE}

\* Mutant of IgniteGuard: the choice is made without the test.
IgniteGuard_missing(tp) == TRUE

\* ignite_tree: "if tree_positions:" guards the random choice.
IgniteGuard(tp) == tp # {}

\* np.random.choice(len(tree_positions)) raises ValueError on 0.
choice_raises(tp) == Cardinality(tp) = 0

\* Mutant of ignite_tree: every TREE is set on fire, not the chosen one.
ignite_tree_all(g, p) == [q \in DOMAIN g |-> IF g[q] = TREE THEN FIRE ELSE g[q]]

\* ignite_tree: the chosen position is set to FIRE.
ignite_tree(g, p) == [g EXCEPT ![p] = FIRE]

get_state(g, n, row, col) == g[<<row % n, col % n>>]

\* Mutant of set_state: row and col are swapped.
set_state_transposed(g, n, row, col, state) ==
    [g EXCEPT ![<<col % n, row % n>>] = state]

set_state(g, n, row, col, state) == [g EXCEPT ![<<row % n, col % n>>] = state]

\* -------------------------------------------------------------- Simulation
\* Mutant of neighbors: the diagonal directions are added.
neighbors_moore == << <<-1, 0>>, <<1, 0>>, <<0, -1>>, <<0, 1>>,
                      <<-1, -1>>, <<-1, 1>>, <<1, -1>>, <<1, 1>> >>

\* The directions next_step looks in from a burning cell.
neighbors == << <<-1, 0>>, <<1, 0>>, <<0, -1>>, <<0, 1>> >>

InGrid(nr, nc, n) == 0 <= nr /\ nr < n /\ 0 <= nc /\ nc < n

\* Mutant of SpreadFire: a burned neighbour is lit again.
RECURSIVE SpreadFire_reburn(_, _, _, _, _, _)
SpreadFire_reburn(old, new, n, row, col, k) ==
    IF k > Len(neighbors) THEN new
    ELSE LET nr == row + neighbors[k][1]
             nc == col + neighbors[k][2]
             lit == IF InGrid(nr, nc, n)
                    THEN IF get_state(old, n, nr, nc) \in {TREE, ASHES}
                         THEN [new EXCEPT ![<<nr, nc>>] = FIRE]
                         ELSE new
                    ELSE new
         IN SpreadFire_reburn(old, lit, n, row, col, k + 1)

\* Mutant of SpreadFire: the test for a TREE neighbour is left out.
RECURSIVE SpreadFire_any(_, _, _, _, _, _)
SpreadFire_any(old, new, n, row, col, k) ==
    IF k > Len(neighbors) THEN new
    ELSE LET nr == row + neighbors[k][1]
             nc == col + neighbors[k][2]
             lit == IF InGrid(nr, nc, n)
                    THEN [new EXCEPT ![<<nr, nc>>] = FIRE]
                    ELSE new
         IN SpreadFire_any(old, lit, n, row, col, k + 1)

\* The loop over the four neighbours of a burning cell (row, col).
RECURSIVE SpreadFire(_, _, _, _, _, _)
SpreadFire(old, new, n, row, col, k) ==
    IF k > Len(neighbors) THEN new
    ELSE LET nr == row + neighbors[k][1]
             nc == col + neighbors[k][2]
             lit == IF InGrid(nr, nc, n)
                    THEN IF get_state(old, n, nr, nc) = TREE
                         THEN [new EXCEPT ![<<nr, nc>>] = FIRE]
                         ELSE new
                    ELSE new
         IN SpreadFire(old, lit, n, row, col, k + 1)

\* Mutant of VisitCell: a TREE cell is treated as burning.
VisitCell_tree(old, new, n, row, col) ==
    IF get_state(old, n, row, col) \in {FIRE, TREE}
    THEN SpreadFire(old, [new EXCEPT ![<<row, col>>] = ASHES], n, row, col, 1)
    ELSE new

\* Mutant of VisitCell: the burning cell is not turned to ASHES.
VisitCell_noash(old, new, n, row, col) ==
    IF get_state(old, n, row, col) = FIRE
    THEN SpreadFire(old, new, n, row, col, 1)
    ELSE new

\* The body of the double loop for one cell.
VisitCell(old, new, n, row, col) ==
    IF get_state(old, n, row, col) = FIRE
    THEN SpreadFire(old, [new EXCEPT ![<<row, col>>] = ASHES], n, row, col, 1)
    ELSE new

\* for row in range(size): for col in range(size), cell i = row * size + col.
RECURSIVE ScanCells(_, _, _, _)
ScanCells(old, new, n, i) ==
    IF i >= n * n THEN new
    ELSE ScanCells(old, VisitCell(old, new, n, i \div n, i % n), n, i + 1)

\* Mutant of NextGrid: the scan reads the grid it writes (no copy).
RECURSIVE ScanInPlace(_, _, _)
ScanInPlace(g, n, i) ==
    IF i >= n * n THEN g
    ELSE ScanInPlace(VisitCell(g, g, n, i \div n, i % n), n, i + 1)

NextGrid_inplace(g, n) == ScanInPlace(g, n, 0)

\* Simulation.next_step: new_grid is a copy of forest.grid, filled by the scan.
NextGrid(g, n) == ScanCells(g, g, n, 0)

has_fire(g) == \E p \in DOMAIN g : g[p] = FIRE

\* Visualization.draw_grid divides canvas.width by forest.size.
draw_grid_raises(n) == n = 0

\* ---------------------------------------------------------------- handlers
Snapshot == [grid |-> grid, size |-> size, time_step |-> time_step,
             forest |-> forest, simulation |-> simulation,
             is_running |-> is_running]

NoArgs == [N |-> 0, Z |-> 0]

\* Module level: forest = simulation = None, is_running = False, interval_id = None.
Init ==
    /\ forest = "None"
    /\ size = 0
    /\ grid = Forest_init(0)
    /\ simulation = "None"
    /\ time_step = 0
    /\ is_running = FALSE
    /\ interval_id = 0
    /\ timers = {}
    /\ reported = << >>
    /\ error = "None"
    /\ last = [op |-> "load", arg |-> NoArgs]
    /\ pre = [grid |-> Forest_init(0), size |-> 0, time_step |-> 0,
              forest |-> "None", simulation |-> "None", is_running |-> FALSE]
    /\ generations = 0
    /\ ignitions = 0
    /\ steps = 0
    /\ fire0 = FALSE
    /\ idle = 0
    /\ set_calls = 0

\* Mutant of stop_simulation: the timer is not cleared.
stop_simulation_leak ==
    /\ is_running' = FALSE
    /\ interval_id' = 0
    /\ timers' = timers

\* stop_simulation: clearInterval(interval_id) when interval_id is set.
stop_simulation ==
    /\ is_running' = FALSE
    /\ timers' = IF interval_id # 0 THEN timers \ {interval_id} ELSE timers
    /\ interval_id' = 0

\* setInterval returns an id that no active timer has.
setInterval == CHOOSE id \in 1 .. Cardinality(timers) + 1 : id \notin timers

\* Mutant of stop_if_running: a running loop is left running.
stop_if_running_never == UNCHANGED run_state

\* generate_forest begins with: if is_running: stop_simulation()
stop_if_running == IF is_running THEN stop_simulation ELSE UNCHANGED run_state

\* Simulation.__init__
Simulation_init_time_step == 0

\* generate_forest with the values N and Z of the two inputs
generate_forest_with(N, Z) ==
    /\ UNCHANGED set_calls
    /\ generations < MaxGenerate
    /\ generations' = generations + 1
    /\ stop_if_running
    /\ last' = [op |-> "generate_forest", arg |-> [N |-> N, Z |-> Z]]
    /\ pre' = Snapshot
    /\ IF Forest_init_raises(N)
       THEN /\ error' = "ValueError in Forest.__init__"
            /\ UNCHANGED <<forest, size, grid, simulation, time_step, ignitions,
                           steps, fire0, idle, reported>>
       ELSE \E prefix \in PlantChoices(N, Z) :
                /\ forest' = "Forest"
                /\ size' = N
                /\ grid' = plant_trees(Forest_init(N), N, prefix)
                /\ simulation' = "Simulation"
                /\ time_step' = Simulation_init_time_step
                /\ reported' = << >>
                /\ ignitions' = 0
                /\ steps' = 0
                /\ fire0' = FALSE
                /\ idle' = 0
                /\ error' = IF draw_grid_raises(N)
                            THEN "ZeroDivisionError in draw_grid" ELSE "None"

generate_forest ==
    \E N \in (0 - MaxNeg) .. MaxSize, Z \in (0 - MaxNeg) .. (MaxSize * MaxSize + 1) :
        generate_forest_with(N, Z)

\* Forest.ignite_tree on the global forest
Forest_ignite_tree ==
    IF IgniteGuard(tree_positions(grid))
    THEN IF choice_raises(tree_positions(grid))
         THEN /\ grid' = grid
              /\ error' = "ValueError in ignite_tree"
         ELSE /\ \E p \in tree_positions(grid) : grid' = ignite_tree(grid, p)
              /\ error' = IF draw_grid_raises(size)
                          THEN "ZeroDivisionError in draw_grid" ELSE "None"
    ELSE /\ grid' = grid
         /\ error' = IF draw_grid_raises(size)
                     THEN "ZeroDivisionError in draw_grid" ELSE "None"

\* start_fire, the handler of the "start-fire" button
start_fire ==
    /\ UNCHANGED set_calls
    /\ ignitions < MaxIgnite
    /\ last' = [op |-> "start_fire", arg |-> NoArgs]
    /\ pre' = Snapshot
    /\ IF forest # "None"
       THEN /\ Forest_ignite_tree
            /\ ignitions' = ignitions + 1
            /\ steps' = 0
            /\ fire0' = has_fire(grid')
            /\ idle' = 0
       ELSE /\ error' = "None"
            /\ UNCHANGED <<grid, ignitions, steps, fire0, idle>>
    /\ UNCHANGED <<forest, size, simulation, time_step, is_running, interval_id,
                   timers, reported, generations>>

\* The statistics of Simulation.next_step and its update_chart call.
total_trees(g) == Count(g, TREE)

total_ashes(g) == Count(g, ASHES)

update_chart(t, trees_left, trees_burned) == <<t, trees_left, trees_burned>>

\* Mutant of Simulation_next_step: the statistics are taken before the step.
Simulation_next_step_stale ==
    /\ grid' = NextGrid(grid, size)
    /\ time_step' = time_step + 1
    /\ reported' = update_chart(time_step', total_trees(grid), total_ashes(grid))
    /\ steps' = steps + 1
    /\ idle' = IF has_fire(grid) THEN 0 ELSE idle + 1
    /\ UNCHANGED <<forest, size, simulation, ignitions, fire0, generations>>

\* Mutant of Simulation_next_step: the clock is advanced twice.
Simulation_next_step_twice ==
    /\ grid' = NextGrid(grid, size)
    /\ time_step' = time_step + 2
    /\ reported' = update_chart(time_step', total_trees(grid'), total_ashes(grid'))
    /\ steps' = steps + 1
    /\ idle' = IF has_fire(grid) THEN 0 ELSE idle + 1
    /\ UNCHANGED <<forest, size, simulation, ignitions, fire0, generations>>

\* Simulation.next_step on the global simulation
Simulation_next_step ==
    /\ grid' = NextGrid(grid, size)
    /\ time_step' = time_step + 1
    /\ reported' = update_chart(time_step', total_trees(grid'), total_ashes(grid'))
    /\ steps' = steps + 1
    /\ idle' = IF has_fire(grid) THEN 0 ELSE idle + 1
    /\ UNCHANGED <<forest, size, simulation, ignitions, fire0, generations>>

\* The model explores a step while the clock and the idle run are within bounds.
StepExplored == time_step < MaxTime /\ (has_fire(grid) \/ idle < MaxIdle)

\* next_step, the handler of the "next-step" button
next_step ==
    /\ UNCHANGED set_calls
    /\ StepExplored
    /\ last' = [op |-> "next_step", arg |-> NoArgs]
    /\ pre' = Snapshot
    /\ IF simulation # "None"
       THEN /\ Simulation_next_step
            /\ error' = IF draw_grid_raises(size)
                        THEN "ZeroDivisionError in draw_grid" ELSE "None"
       ELSE /\ error' = "None"
            /\ UNCHANGED <<forest, size, grid, simulation, time_step, ignitions,
                           steps, fire0, generations, idle, reported>>
    /\ UNCHANGED run_state

\* run_simulation, the handler of the "run-button"
run_simulation ==
    /\ UNCHANGED set_calls
    /\ last' = [op |-> "run_simulation", arg |-> NoArgs]
    /\ pre' = Snapshot
    /\ error' = "None"
    /\ IF simulation = "None"
       THEN UNCHANGED run_state
       ELSE IF ~is_running
            THEN /\ is_running' = TRUE
                 /\ interval_id' = setInterval
                 /\ timers' = timers \cup {setInterval}
            ELSE stop_simulation
    /\ UNCHANGED <<forest, size, grid, simulation, time_step, generations,
                   ignitions, steps, fire0, idle, reported>>

\* step, the callback that run_simulation hands to setInterval
step ==
    /\ UNCHANGED set_calls
    /\ timers # {}
    /\ StepExplored
    /\ last' = [op |-> "step", arg |-> NoArgs]
    /\ pre' = Snapshot
    /\ IF simulation # "None"
       THEN /\ Simulation_next_step
            /\ IF draw_grid_raises(size)
               THEN /\ error' = "ZeroDivisionError in draw_grid"
                    /\ UNCHANGED run_state
               ELSE /\ error' = "None"
                    /\ IF ~has_fire(grid')
                       THEN stop_simulation
                       ELSE UNCHANGED run_state
       ELSE /\ error' = "None"
            /\ UNCHANGED <<forest, size, grid, simulation, time_step, generations,
                           ignitions, steps, fire0, idle, is_running, interval_id,
                           timers, reported>>

\* Forest.set_state called on the global forest; row % 0 raises.
Forest_set_state ==
    \E row \in (0 - MaxNeg) .. MaxSize, col \in (0 - MaxNeg) .. MaxSize,
       state \in TileState :
        /\ forest # "None"
        /\ set_calls < MaxSetState
        /\ set_calls' = set_calls + 1
        /\ last' = [op |-> "set_state",
                    arg |-> [row |-> row, col |-> col, state |-> state]]
        /\ pre' = Snapshot
        /\ IF size = 0
           THEN /\ error' = "ZeroDivisionError in set_state"
                /\ UNCHANGED <<grid, steps, fire0, idle>>
           ELSE /\ grid' = set_state(grid, size, row, col, state)
                /\ error' = "None"
                /\ steps' = 0
                /\ fire0' = has_fire(grid')
                /\ idle' = 0
        /\ UNCHANGED <<forest, size, simulation, time_step, is_running, interval_id,
                       timers, reported, generations, ignitions>>

Next ==
    \/ Forest_set_state
    \/ generate_forest
    \/ start_fire
    \/ next_step
    \/ run_simulation
    \/ step

Spec == Init /\ [][Next]_vars

\* ------------------------------------------------------- stepping any grid
\* A Simulation over a Forest of side 1 .. GridSide whose cells were written
\* with Forest.set_state, so that every grid is a starting point.
InitGrid ==
    /\ forest = "Forest"
    /\ size \in 1 .. GridSide
    /\ grid \in [Positions(size) -> TileState]
    /\ simulation = "Simulation"
    /\ time_step = Simulation_init_time_step
    /\ is_running = FALSE
    /\ interval_id = 0
    /\ timers = {}
    /\ reported = << >>
    /\ error = "None"
    /\ last = [op |-> "set_state", arg |-> NoArgs]
    /\ pre = [grid |-> grid, size |-> size, time_step |-> 0,
              forest |-> "Forest", simulation |-> "Simulation",
              is_running |-> FALSE]
    /\ generations = 1
    /\ ignitions = 0
    /\ steps = 0
    /\ fire0 = has_fire(grid)
    /\ idle = 0
    /\ set_calls = 0

NextStepOnly == next_step

SpecGrid == InitGrid /\ [][NextStepOnly]_vars

\* ---------------------------------------------------- the example scenario
\* N = 5, Z = 5: generate the forest, ignite once, step until no FIRE is left.
ExampleGenerate == generations = 0 /\ generate_forest_with(5, 5)

ExampleIgnite == generations = 1 /\ ignitions = 0 /\ start_fire

ExampleStep == ignitions = 1 /\ has_fire(grid) /\ next_step

NextExample == ExampleGenerate \/ ExampleIgnite \/ ExampleStep

SpecExample == Init /\ [][NextExample]_vars

\* ------------------------------------------------------------- properties
\* The last operation was a Simulation.next_step on an existing simulation.
Stepped == last.op \in {"next_step", "step"} /\ pre.simulation # "None"

\* The four orthogonal neighbours of p on the torus of side n.
Orthogonal(p, n) ==
    {<<(p[1] - 1) % n, p[2]>>, <<(p[1] + 1) % n, p[2]>>,
     <<p[1], (p[2] - 1) % n>>, <<p[1], (p[2] + 1) % n>>}

\* The four diagonal neighbours of p on the torus of side n.
Diagonal(p, n) ==
    {<<(p[1] + dr) % n, (p[2] + dc) % n>> : dr \in {-1, 1}, dc \in {-1, 1}}

Quiet(g, p, n) == \A q \in Orthogonal(p, n) : g[q] # FIRE

\* C1: if (0,0) is FIRE and (N-1,0) and (0,N-1) are TREE before a step on a
\* grid of side N >= 2, both of these cells are FIRE after the step.
WraparoundPropagation ==
    (/\ Stepped
     /\ pre.size >= 2
     /\ pre.grid[<<0, 0>>] = FIRE
     /\ pre.grid[<<pre.size - 1, 0>>] = TREE
     /\ pre.grid[<<0, pre.size - 1>>] = TREE)
    => /\ grid[<<size - 1, 0>>] = FIRE
       /\ grid[<<0, size - 1>>] = FIRE

\* C2: a cell that is TREE before a step and has no FIRE among its four
\* orthogonal neighbours in the pre-step grid is still TREE after the step.
SimultaneousUpdate ==
    Stepped =>
        \A p \in Positions(pre.size) :
            (pre.grid[p] = TREE /\ Quiet(pre.grid, p, pre.size)) => grid[p] = TREE

\* A step left a TREE alone whose only burning neighbour was diagonal, while
\* the fire advanced to another cell.
SimultaneousUpdateWitness ==
    /\ Stepped
    /\ \E p \in Positions(pre.size) :
        /\ pre.grid[p] = TREE
        /\ Quiet(pre.grid, p, pre.size)
        /\ \E q \in Diagonal(p, pre.size) : pre.grid[q] = FIRE
        /\ grid[p] = TREE
    /\ \E p \in Positions(pre.size) : pre.grid[p] = TREE /\ grid[p] = FIRE

\* C3: after a step every cell that was FIRE is ASHES and every cell that was
\* ASHES or EMPTY has the state it had.
MonotonicDecay ==
    Stepped =>
        \A p \in Positions(pre.size) :
            /\ pre.grid[p] = FIRE => grid[p] = ASHES
            /\ pre.grid[p] \in {ASHES, EMPTY} => grid[p] = pre.grid[p]

\* A step on a grid with a FIRE cell that had ASHES and EMPTY cells next to it.
MonotonicDecayWitness ==
    /\ Stepped
    /\ \E p \in Positions(pre.size) :
        /\ pre.grid[p] = FIRE
        /\ grid[p] = ASHES
        /\ \E q, r \in Orthogonal(p, pre.size) :
            /\ pre.grid[q] = ASHES /\ grid[q] = ASHES
            /\ pre.grid[r] = EMPTY /\ grid[r] = EMPTY

\* C4: when only steps are applied to a grid of side N that had a FIRE cell,
\* no cell is FIRE once N * N steps were applied.
Termination ==
    (fire0 /\ steps >= size * size) => ~has_fire(grid)

\* N * N steps were applied to a grid of side N >= 2 that had a FIRE cell, the
\* last while a cell was still burning or right after the fire went out.
TerminationWitness ==
    /\ fire0
    /\ size >= 2
    /\ steps >= size * size
    /\ ~has_fire(grid)
    /\ Stepped

Min(a, b) == IF a < b THEN a ELSE b

Max(a, b) == IF a > b THEN a ELSE b

\* C5 as stated: in the example scenario (N = 5, Z = 5) count(TREE) + count(ASHES)
\* is 5 after the ignition and after each step.
ExampleConservation ==
    ignitions = 1 => Count(grid, TREE) + Count(grid, ASHES) = 5

\* C5 as amended: in the example scenario count(TREE) + count(FIRE) + count(ASHES)
\* is 5 after the planting, after the ignition and after each step, and
\* count(TREE) + count(ASHES) is 5 whenever no cell is FIRE.
ExampleConservationAmended ==
    generations = 1 =>
        /\ Count(grid, TREE) + Count(grid, FIRE) + Count(grid, ASHES) = 5
        /\ ~has_fire(grid) => Count(grid, TREE) + Count(grid, ASHES) = 5

\* The example run ended after the fire had spread from the ignited tree.
ExampleConservationWitness ==
    /\ ignitions = 1
    /\ Stepped
    /\ ~has_fire(grid)
    /\ Count(grid, ASHES) >= 2
    /\ Count(grid, TREE) >= 1

Generated == last.op = "generate_forest" /\ error # "ValueError in Forest.__init__"

\* C6: plant_trees(Z) on a fresh grid of side N leaves min(max(Z, 0), N * N)
\* cells TREE and every other cell EMPTY.
SeedingCount ==
    Generated =>
        /\ size = last.arg.N
        /\ DOMAIN grid = Positions(size)
        /\ Count(grid, TREE) = Min(Max(last.arg.Z, 0), size * size)
        /\ Count(grid, EMPTY) = size * size - Count(grid, TREE)

\* A forest was seeded with 0 < Z < N * N trees.
SeedingCountWitness ==
    /\ Generated
    /\ 0 < last.arg.Z
    /\ last.arg.Z < size * size
    /\ Count(grid, TREE) = last.arg.Z

Ignited == last.op = "start_fire" /\ pre.forest # "None"

\* C7: ignite_tree on a grid with a TREE turns exactly one TREE to FIRE and
\* changes no other cell and not time_step.
IgnitionEffect ==
    (Ignited /\ tree_positions(pre.grid) # {}) =>
        /\ \E p \in tree_positions(pre.grid) : grid = [pre.grid EXCEPT ![p] = FIRE]
        /\ Count(grid, FIRE) = Count(pre.grid, FIRE) + 1
        /\ Count(grid, TREE) = Count(pre.grid, TREE) - 1
        /\ time_step = pre.time_step

\* A tree was ignited while other trees stood and another cell was burning.
IgnitionEffectWitness ==
    /\ Ignited
    /\ Count(pre.grid, TREE) >= 2
    /\ Count(pre.grid, FIRE) >= 1
    /\ Count(grid, FIRE) = Count(pre.grid, FIRE) + 1

\* C8: ignite_tree on a grid with no TREE leaves every cell as it was and
\* raises no error.
IgnitionNoOp ==
    (Ignited /\ tree_positions(pre.grid) = {}) =>
        /\ grid = pre.grid
        /\ error # "ValueError in ignite_tree"

\* start_fire was clicked on a burned-out grid that has no TREE.
IgnitionNoOpWitness ==
    /\ Ignited
    /\ tree_positions(pre.grid) = {}
    /\ Count(pre.grid, ASHES) >= 1
    /\ grid = pre.grid
    /\ error = "None"

\* C9: time_step is 0 when the Simulation is created, one more after each
\* next_step, and left alone by every other operation.
ClockMonotonicity ==
    /\ Generated => time_step = 0
    /\ Stepped => time_step = pre.time_step + 1
    /\ (~Generated /\ ~Stepped) => time_step = pre.time_step
    /\ simulation = "None" => time_step = 0

\* The timer stepped a regenerated simulation for the second time.
ClockMonotonicityWitness ==
    /\ last.op = "step"
    /\ Stepped
    /\ generations = 2
    /\ size >= 2
    /\ time_step = 2

\* C10: constructing a grid of side N <= 0 fails and leaves no usable grid (the
\* forest that was there stays); for N > 0 it yields an N x N grid, whose cells
\* are EMPTY until plant_trees writes TREE to some.
ConstructionValidation ==
    last.op = "generate_forest" =>
        IF last.arg.N <= 0
        THEN /\ error = "ValueError in Forest.__init__"
             /\ forest = pre.forest
             /\ grid = pre.grid
        ELSE /\ forest = "Forest"
             /\ size = last.arg.N
             /\ DOMAIN grid = Positions(last.arg.N)
             /\ \A p \in Positions(last.arg.N) : grid[p] \in {EMPTY, TREE}

\* C11: the triple a step hands to update_chart is the clock after the
\* increment, the number of TREE cells and the number of ASHES cells of the
\* grid after the step.
StepReport ==
    Stepped =>
        /\ reported = <<pre.time_step + 1, Count(grid, TREE), Count(grid, ASHES)>>
        /\ reported[1] = time_step

\* A step changed both counts, so the report tells the new grid from the old.
StepReportWitness ==
    /\ Stepped
    /\ Count(grid, TREE) < Count(pre.grid, TREE)
    /\ Count(grid, ASHES) > Count(pre.grid, ASHES)
    /\ reported = <<time_step, Count(grid, TREE), Count(grid, ASHES)>>

\* C12: a step on a grid without a FIRE cell leaves every cell as it was,
\* raises no error and advances time_step by 1.
ExtinguishedStep ==
    (Stepped /\ ~has_fire(pre.grid)) =>
        /\ grid = pre.grid
        /\ error = "None"
        /\ time_step = pre.time_step + 1

\* A grid holding TREE and ASHES cells but no FIRE was stepped.
ExtinguishedStepWitness ==
    /\ Stepped
    /\ ~has_fire(pre.grid)
    /\ Count(pre.grid, TREE) >= 1
    /\ Count(pre.grid, ASHES) >= 1
    /\ grid = pre.grid
    /\ time_step = pre.time_step + 1

\* C13: a timer tick performs exactly one step and then tests has_fire; when
\* the step leaves no FIRE cell the loop has stopped itself: is_running is
\* false and the timer is cleared, so no further tick follows.
AutoRunStop ==
    (last.op = "step" /\ Stepped) =>
        /\ time_step = pre.time_step + 1
        /\ ~has_fire(grid) => (~is_running /\ interval_id = 0 /\ timers = {})

\* C14: generate_forest with a grid size N <= 0 or a tree count Z <= 0 raises
\* an error before a Forest or a Simulation is constructed, so the forest,
\* its grid and the simulation are those from before the call.
SeedingValidation ==
    (last.op = "generate_forest" /\ (last.arg.N <= 0 \/ last.arg.Z <= 0)) =>
        /\ error # "None"
        /\ forest = pre.forest
        /\ simulation = pre.simulation
        /\ size = pre.size
        /\ grid = pre.grid
        /\ time_step = pre.time_step

\* C15: after any sequence of construction, plant_trees, ignite_tree and
\* next_step, each of the N * N cells holds one of EMPTY, TREE, FIRE, ASHES,
\* so the four counts add up to N * N.
CountInvariant ==
    /\ DOMAIN grid = Positions(size)
    /\ \A p \in Positions(size) : grid[p] \in TileState
    /\ Count(grid, EMPTY) + Count(grid, TREE) + Count(grid, FIRE)
           + Count(grid, ASHES) = size * size

\* After planting, igniting and stepping, a 2 x 2 grid holds all four states.
CountInvariantWitness ==
    /\ Stepped
    /\ size = 2
    /\ set_calls = 0
    /\ Count(grid, EMPTY) = 1
    /\ Count(grid, TREE) = 1
    /\ Count(grid, FIRE) = 1
    /\ Count(grid, ASHES) = 1

\* The 3 x 3 grid whose centre is FIRE and whose other eight cells are TREE.
CentreFire == [p \in Positions(3) |-> IF p = <<1, 1>> THEN FIRE ELSE TREE]

\* C16: one step on the 3 x 3 grid with a FIRE centre and eight TREE cells
\* leaves the centre ASHES, the four cells above, below, left and right of
\* it FIRE, and the four corners TREE.
CentrePropagation ==
    (Stepped /\ pre.size = 3 /\ pre.grid = CentreFire) =>
        /\ grid[<<1, 1>>] = ASHES
        /\ \A p \in {<<0, 1>>, <<2, 1>>, <<1, 0>>, <<1, 2>>} : grid[p] = FIRE
        /\ \A p \in {<<0, 0>>, <<0, 2>>, <<2, 0>>, <<2, 2>>} : grid[p] = TREE

\* The first step on that grid was taken.
CentrePropagationWitness ==
    /\ Stepped
    /\ pre.size = 3
    /\ pre.grid = CentreFire
    /\ time_step = 1
    /\ Count(grid, FIRE) = 4
    /\ Count(grid, TREE) = 4

\* The indices for which cell access is compared with the wrapped cell.
WrapRange == (0 - 2 * MaxSize - 1) .. (2 * MaxSize + 1)

\* The k in 0 .. n - 1 with i = q * n + k for an integer q.
WrapIndex(i, n) ==
    CHOOSE k \in 0 .. n - 1 : \E q \in WrapRange : i = q * n + k

\* C17: on a grid of side N >= 1, set_state(row, col, s) writes s to the cell
\* (row mod N, col mod N) and to no other cell, and get_state(row, col) returns
\* the cell (row mod N, col mod N), for negative indices and indices >= N too;
\* the modulo is the non-negative one.
WrappedAccess ==
    (last.op = "set_state" /\ pre.size >= 1) =>
        LET w == <<WrapIndex(last.arg.row, size), WrapIndex(last.arg.col, size)>>
        IN /\ error = "None"
           /\ grid[w] = last.arg.state
           /\ \A p \in Positions(size) \ {w} : grid[p] = pre.grid[p]
           /\ get_state(grid, size, last.arg.row, last.arg.col) = last.arg.state
           /\ \A r \in WrapRange, c \in WrapRange :
                  get_state(grid, size, r, c)
                      = grid[<<WrapIndex(r, size), WrapIndex(c, size)>>]

\* set_state(-1, 2, s) changed the cell (1, 0) of a 2 x 2 grid.
WrappedAccessWitness ==
    /\ last.op = "set_state"
    /\ size = 2
    /\ last.arg.row = 0 - 1
    /\ last.arg.col = 2
    /\ grid[<<1, 0>>] = last.arg.state
    /\ pre.grid[<<1, 0>>] # last.arg.state

\* C18: whatever clicks on Run/Stop, Generate and Next step and whatever
\* timer ticks have happened, at most one interval timer is active, a timer
\* is active exactly when is_running is true, and interval_id is set exactly
\* when is_running is true (and then names the active timer).
SingleTimer ==
    /\ Cardinality(timers) <= 1
    /\ (timers # {}) <=> is_running
    /\ (interval_id # 0) <=> is_running
    /\ is_running => timers = {interval_id}

\* The timer of a loop started on a regenerated forest has ticked, and the
\* grid still burns.
SingleTimerWitness ==
    /\ last.op = "step"
    /\ Stepped
    /\ has_fire(grid)
    /\ is_running
    /\ timers = {interval_id}
    /\ generations = 2

\* C19: a next_step or an ignite_tree never raises the number of TREE cells
\* nor lowers the number of ASHES cells; an ASHES cell stays ASHES, an EMPTY
\* cell stays EMPTY, a cell is TREE only if it was TREE; a FIRE cell is ASHES
\* after the next step and ignite_tree leaves it FIRE, so no cell is FIRE
\* after two different steps.
NoRegeneration ==
    (Stepped \/ Ignited) =>
        /\ Count(grid, TREE) <= Count(pre.grid, TREE)
        /\ Count(grid, ASHES) >= Count(pre.grid, ASHES)
        /\ \A p \in Positions(pre.size) :
               /\ pre.grid[p] = ASHES => grid[p] = ASHES
               /\ pre.grid[p] = EMPTY => grid[p] = EMPTY
               /\ grid[p] = TREE => pre.grid[p] = TREE
               /\ (Stepped /\ pre.grid[p] = FIRE) => grid[p] = ASHES
               /\ (Ignited /\ pre.grid[p] = FIRE) => grid[p] = FIRE

\* The second step of a fire: a burned cell stayed ASHES next to a cell that
\* caught fire, and a burning cell became ASHES.
NoRegenerationWitness ==
    /\ Stepped
    /\ time_step = 2
    /\ set_calls = 0
    /\ \E p \in Positions(size) : pre.grid[p] = ASHES /\ grid[p] = ASHES
    /\ \E p \in Positions(size) : pre.grid[p] = FIRE /\ grid[p] = ASHES
    /\ \E p \in Positions(size) : pre.grid[p] = TREE /\ grid[p] = FIRE

\* C20: when generate_forest is called while the run loop is active, the
\* loop is stopped: after the call no timer is active and is_running is
\* false; the new simulation starts at time_step 0 and the new grid holds
\* only EMPTY and TREE cells.
RegenerationResets ==
    (last.op = "generate_forest" /\ pre.is_running) =>
        /\ ~is_running
        /\ interval_id = 0
        /\ timers = {}
        /\ Generated =>
               /\ simulation = "Simulation"
               /\ time_step = 0
               /\ \A p \in Positions(size) : grid[p] \in {EMPTY, TREE}

\* A burning 2 x 2 forest under auto-run was replaced by a new one.
RegenerationResetsWitness ==
    /\ last.op = "generate_forest"
    /\ pre.is_running
    /\ has_fire(pre.grid)
    /\ pre.time_step >= 1
    /\ size = 2
    /\ Count(grid, TREE) >= 1
    /\ time_step = 0
    /\ ~is_running

====
